---- MODULE Spec2Model ----
(***************************************************************************)
(* LubeLogger integration: the remote client (api.py), the refresh cycle   *)
(* of the coordinator (coordinator.py), instance setup/unload and the      *)
(* write services (__init__.py).                                           *)
(*                                                                         *)
(* The scheduling half of the coordinator (publishing the result of a      *)
(* cycle, the timer, single-flight refresh requests, the first refresh)    *)
(* lives in the base class DataUpdateCoordinator, which is not part of the *)
(* source tree; it is modelled from sections 4.3 and 5 of the              *)
(* specification.                                                          *)
(***************************************************************************)
EXTENDS Integers, Sequences, FiniteSets, TLC

\* ------------------------------------------------------------------ bounds
\* The config entries and the vehicle identifiers of the model, and the
\* names that tell the cycles of one coordinator apart while they run.
Entries == {"e1", "e2"}
VehicleIds == {1, 2}
Slots == {1, 2}

\* ------------------------------------------------------------ const.py
SERVICE_ADD_ODOMETER == "add_odometer_record"
SERVICE_ADD_GAS == "add_gas_record"
SERVICE_ADD_REMINDER == "add_reminder"
Services == {SERVICE_ADD_ODOMETER, SERVICE_ADD_GAS, SERVICE_ADD_REMINDER}

SensorKeys == {"service_record_cost", "repair_record_cost",
               "upgrade_record_cost", "tax_record_cost", "gas_record_cost",
               "last_reported_odometer", "next_reminder"}

\* ------------------------------------------------- the remote service
\* A vehicle summary as returned by GET /api/vehicles.
Summary(v) == [id |-> v, make |-> "Acme"]

\* Detail mappings as returned by GET /api/vehicle/info: one key that the
\* summary does not have and one that collides with a summary key.
Details == { [make |-> "Detail", lastReportedOdometer |-> 2] }

IdSeqs == UNION { { s \in [1..n -> VehicleIds] :
                      \A i, j \in 1..n : i # j => s[i] # s[j] } :
                  n \in 0..Cardinality(VehicleIds) }

\* Listings: ordered sequences of summaries with pairwise distinct ids.
Listings == { [i \in 1..Len(s) |-> Summary(s[i])] : s \in IdSeqs }

Ids(listing) == { listing[i].id : i \in 1..Len(listing) }

\* What the HTTP session does with one request: an HTTP response with a
\* status and a body, or an exception raised by the transport.
\*   body "json"      a well-formed JSON body (value is its parsed content)
\*   body "not_json"  a body whose content type is not JSON
\*   body "malformed" a JSON content type with an unparsable body
Statuses == {200, 400, 401, 403, 404, 500, 503}
\* A timeout reaches _request as ServerTimeoutError (a socket timeout, a
\* ClientError) or as asyncio's TimeoutError (the total timeout of 30 s, not
\* a ClientError).
TransportExceptions == {"ClientConnectorError", "ServerDisconnectedError",
                        "ServerTimeoutError", "TimeoutError"}

Http(status, body, value) ==
    [kind |-> "http", status |-> status, body |-> body, value |-> value,
     exc |-> "none"]
TransportRaises(cls) ==
    [kind |-> "raise", status |-> 0, body |-> "none", value |-> <<>>,
     exc |-> cls]

Transports(values) ==
    { Http(200, "json", v) : v \in values }
      \cup { Http(s, "json", <<>>) : s \in Statuses \ {200} }
      \cup { Http(200, "not_json", <<>>), Http(200, "malformed", <<>>) }
      \cup { TransportRaises(c) : c \in TransportExceptions }

\* --------------------------------------------------------------- api.py
\* The exception classes and their base classes.
Bases(cls) ==
    CASE cls = "LubeLoggerAuthError" -> {"LubeLoggerApiError"}
      [] cls = "LubeLoggerConnectionError" -> {"LubeLoggerApiError"}
      [] cls = "ClientResponseError" -> {"ClientError"}
      [] cls = "ContentTypeError" -> {"ClientResponseError", "ClientError"}
      [] cls = "ClientConnectorError" -> {"ClientError"}
      [] cls = "ServerDisconnectedError" -> {"ClientError"}
      [] cls = "ServerTimeoutError" -> {"ClientError"}
      [] OTHER -> {}

IsInstance(cls, base) == cls = base \/ base \in Bases(cls)

Ok(value) == [kind |-> "ok", value |-> value, exc |-> "none"]
Raise(cls) == [kind |-> "raise", value |-> <<>>, exc |-> cls]

\* The body of the "async with" block of _request: what it returns or
\* raises before the except clauses are applied.
RequestBody(t) ==
    IF t.kind = "raise" THEN Raise(t.exc)
    ELSE IF t.status \in {401, 403} THEN Raise("LubeLoggerAuthError")
    ELSE IF t.status >= 400 THEN Raise("ClientResponseError")
    ELSE IF t.body = "not_json" THEN Raise("ContentTypeError")
    ELSE IF t.body = "malformed" THEN Raise("JSONDecodeError")
    ELSE Ok(t.value)

\* The except clauses of _request, in their order.
RequestExcept(t, r) ==
    IF r.kind = "ok" THEN r
    ELSE IF IsInstance(r.exc, "LubeLoggerAuthError") THEN r
    ELSE IF IsInstance(r.exc, "ClientResponseError")
         THEN IF t.kind = "http" /\ t.status \in {401, 403}
              THEN Raise("LubeLoggerAuthError")
              ELSE Raise("LubeLoggerApiError")
    ELSE IF IsInstance(r.exc, "ClientError")
         THEN Raise("LubeLoggerConnectionError")
    ELSE r

Request(t) == RequestExcept(t, RequestBody(t))

\* base64.b64encode on a sequence of bytes: the sextets of its output, with
\* 64 standing for the padding character.
RECURSIVE B64Encode(_)
B64Encode(s) ==
    IF Len(s) = 0 THEN <<>>
    ELSE IF Len(s) = 1
         THEN <<s[1] \div 4, (s[1] % 4) * 16, 64, 64>>
    ELSE IF Len(s) = 2
         THEN <<s[1] \div 4, (s[1] % 4) * 16 + (s[2] \div 16),
                (s[2] % 16) * 4, 64>>
    ELSE <<s[1] \div 4, (s[1] % 4) * 16 + (s[2] \div 16),
           (s[2] % 16) * 4 + (s[3] \div 64), s[3] % 64>>
           \o B64Encode(SubSeq(s, 4, Len(s)))

\* _create_auth_header: "Basic " and the encoding of username ":" password
\* (58 is the colon).
CreateAuthHeader(username, password) ==
    [scheme |-> "Basic", encoded |-> B64Encode(username \o <<58>> \o password)]

\* LubeLoggerApiClient.__init__: the header is computed here and stored; the
\* arguments are kept in the record for the claims only.
NewClient(username, password) ==
    [username |-> username, password |-> password,
     auth_header |-> CreateAuthHeader(username, password)]

\* _get_headers that computes the header from the password alone.
GetHeadersRecomputed(c) ==
    [Authorization |-> CreateAuthHeader(<<>>, c.password),
     culture_invariant |-> "", Content_Type |-> "application/json"]

\* _get_headers: the stored header, the culture-invariant header (present,
\* empty) and the content type.
GetHeaders(c) ==
    [Authorization |-> c.auth_header,
     culture_invariant |-> "", Content_Type |-> "application/json"]

\* Usernames and passwords: byte sequences over "a" and ":".
MaxCredLen == 2
CredChars == {97, 58}
Credentials == UNION { [1..n -> CredChars] : n \in 0..MaxCredLen }

\* ------------------------------------------------------------------ state
VARIABLES
    setup,           \* per entry: position of async_setup_entry / unload
    active,          \* hass.data[DOMAIN]: entry ids in insertion order
    data,            \* coordinator.data: the published snapshot
    last_exception,  \* coordinator.last_exception ("none" if the last cycle succeeded)
    cycles,          \* the refresh cycles in flight
    devices,         \* device registry: <<entry, vehicle id>>
    sensors,         \* sensor entities: <<entry, vehicle id, key>>
    services,        \* registered services
    call,            \* the service invocation being handled, or how the last one ended
    req,             \* one _request call: operation, transport outcome, result
    registrations,   \* per service: number of hass.services.async_register calls
    options,         \* per entry: config_entry.options
    proj,            \* one read of a sensor: what was read and what it gave
    run,             \* one run of _async_update_data on given responses
    client,          \* the LubeLoggerApiClient whose _request calls req records
    flow             \* one step of the config flow, and the entries' stored data

vars == <<setup, active, data, last_exception, cycles,
          devices, sensors, services, call, req,
          registrations, options, proj, run, client, flow>>

NoSnapshot == [v \in {} |-> <<>>]
NoCall == [state |-> "idle", op |-> "none", vehicle_id |-> 0, entry |-> "none",
           slot |-> 0, attached |-> FALSE, result |-> "none"]
NoReq == [op |-> "none", vehicle_id |-> 0,
          transport |-> TransportRaises("none"), result |-> Raise("none"),
          headers |-> <<>>]
NoProj == [op |-> "none"]
NoRun == [op |-> "none"]
NoOptions == [k \in {} |-> ""]
NoEntryData == [exists |-> FALSE, username |-> <<>>, password |-> <<>>]
NoFlow == [step |-> "none", entries |-> [e \in Entries |-> NoEntryData]]
DefaultClient == NewClient(<<97>>, <<97, 97>>)

InFlight(e) == { c \in cycles : c.entry = e }

\* Nothing is set up; c is the client the _request calls go through.
InitWith(c) ==
    /\ setup = [e \in Entries |-> "not_loaded"]
    /\ active = <<>>
    /\ data = [e \in Entries |-> NoSnapshot]
    /\ last_exception = [e \in Entries |-> "none"]
    /\ cycles = {}
    /\ devices = {}
    /\ sensors = {}
    /\ services = {}
    /\ call = NoCall
    /\ req = NoReq
    /\ registrations = [s \in Services |-> 0]
    /\ options = [e \in Entries |-> NoOptions]
    /\ proj = NoProj
    /\ run = NoRun
    /\ client = c
    /\ flow = NoFlow

Init == InitWith(DefaultClient)

\* ------------------------------------------------------- coordinator.py
\* Merge as {**vehicle_info, **vehicle}: the summary wins on a common key.
MergeSummaryWins(vehicle, vehicle_info) ==
    [k \in (DOMAIN vehicle) \cup (DOMAIN vehicle_info) |->
        IF k \in DOMAIN vehicle THEN vehicle[k] ELSE vehicle_info[k]]

\* {**vehicle, **vehicle_info}: the summary overlaid with the detail.
Merge(vehicle, vehicle_info) ==
    [k \in (DOMAIN vehicle) \cup (DOMAIN vehicle_info) |->
        IF k \in DOMAIN vehicle_info THEN vehicle_info[k] ELSE vehicle[k]]

\* Put that files the value under the number of its arrival instead of the
\* vehicle's id.
PutByArrival(d, vehicle_id, value) ==
    [v \in (DOMAIN d) \cup {Cardinality(DOMAIN d) + 1} |->
        IF v = Cardinality(DOMAIN d) + 1 THEN value ELSE d[v]]

\* data[vehicle_id] = value on the cycle's local dict.
Put(d, vehicle_id, value) ==
    [v \in (DOMAIN d) \cup {vehicle_id} |->
        IF v = vehicle_id THEN value ELSE d[v]]

\* A cycle that has just issued client.get_vehicles(); response is what the
\* HTTP session will do with the outstanding request.
NewCycle(e, n, t) ==
    [entry |-> e, slot |-> n, pc |-> "listing", vehicles_list |-> <<>>,
     idx |-> 0, data |-> NoSnapshot, response |-> t]

\* OuterExcept with the LubeLoggerApiError clause first: it catches every
\* client error, the authentication error included.
OuterExceptApiFirst(cls) ==
    IF IsInstance(cls, "LubeLoggerApiError") THEN "UpdateFailed" ELSE cls

\* The except clauses at the end of _async_update_data.
OuterExcept(cls) ==
    IF IsInstance(cls, "LubeLoggerAuthError") THEN "ConfigEntryAuthFailed"
    ELSE IF IsInstance(cls, "LubeLoggerConnectionError") THEN "UpdateFailed"
    ELSE IF IsInstance(cls, "LubeLoggerApiError") THEN "UpdateFailed"
    ELSE cls

Continue(c) == [kind |-> "continue", cycle |-> c, data |-> NoSnapshot, exc |-> "none"]
Return(d) == [kind |-> "return", cycle |-> <<>>, data |-> d, exc |-> "none"]
Raised(cls) == [kind |-> "raise", cycle |-> <<>>, data |-> NoSnapshot, exc |-> cls]

\* UpdateDataListed that answers a failed listing with an empty snapshot
\* instead of raising.
UpdateDataListedEmptyOnFailure(c, r) ==
    IF r.kind = "raise" \/ Len(r.value) = 0 THEN Return(NoSnapshot)
    ELSE Continue([c EXCEPT !.pc = "detail", !.vehicles_list = r.value, !.idx = 1])

\* _async_update_data resumed with the result r of get_vehicles():
\* an empty listing returns at once, otherwise the first detail call is issued.
UpdateDataListed(c, r) ==
    IF r.kind = "raise" THEN Raised(OuterExcept(r.exc))
    ELSE IF Len(r.value) = 0 THEN Return(NoSnapshot)
    ELSE Continue([c EXCEPT !.pc = "detail", !.vehicles_list = r.value, !.idx = 1])

\* LoopBody whose inner except clause lets the authentication error pass on
\* to the clauses at the end of _async_update_data.
LoopBodyAuthPropagates(c, r) ==
    LET vehicle == c.vehicles_list[c.idx]
    IN  IF r.kind = "ok"
        THEN [kind |-> "ok", exc |-> "none", warned |-> "none",
              data |-> Put(c.data, vehicle.id, Merge(vehicle, r.value))]
        ELSE IF IsInstance(r.exc, "LubeLoggerApiError")
                /\ ~IsInstance(r.exc, "LubeLoggerAuthError")
        THEN [kind |-> "ok", exc |-> "none", warned |-> r.exc,
              data |-> Put(c.data, vehicle.id, vehicle)]
        ELSE [kind |-> "raise", exc |-> r.exc, warned |-> "none", data |-> c.data]

\* LoopBody that leaves a vehicle out when its detail call fails.
LoopBodySkipFailed(c, r) ==
    LET vehicle == c.vehicles_list[c.idx]
    IN  IF r.kind = "ok"
        THEN [kind |-> "ok", exc |-> "none", warned |-> "none",
              data |-> Put(c.data, vehicle.id, Merge(vehicle, r.value))]
        ELSE IF IsInstance(r.exc, "LubeLoggerApiError")
        THEN [kind |-> "ok", exc |-> "none", warned |-> r.exc, data |-> c.data]
        ELSE [kind |-> "raise", exc |-> r.exc, warned |-> "none", data |-> c.data]

\* LoopBody without the inner try: a failed detail call ends the loop.
LoopBodyNoInnerTry(c, r) ==
    LET vehicle == c.vehicles_list[c.idx]
    IN  IF r.kind = "ok"
        THEN [kind |-> "ok", exc |-> "none", warned |-> "none",
              data |-> Put(c.data, vehicle.id, Merge(vehicle, r.value))]
        ELSE [kind |-> "raise", exc |-> r.exc, warned |-> "none", data |-> c.data]

\* The body of the for loop for the vehicle at c.idx, given the result r of
\* get_vehicle_info(): the new local dict, or the class that escapes the
\* inner except clause.
LoopBody(c, r) ==
    LET vehicle == c.vehicles_list[c.idx]
        vehicle_id == vehicle.id
    IN  IF r.kind = "ok"
        THEN [kind |-> "ok", exc |-> "none", warned |-> "none",
              data |-> Put(c.data, vehicle_id, Merge(vehicle, r.value))]
        ELSE IF IsInstance(r.exc, "LubeLoggerApiError")
        THEN [kind |-> "ok", exc |-> "none", warned |-> r.exc,
              data |-> Put(c.data, vehicle_id, vehicle)]
        ELSE [kind |-> "raise", exc |-> r.exc, warned |-> "none", data |-> c.data]

\* _async_update_data resumed with the result r of get_vehicle_info() for
\* the vehicle at c.idx: after the last vehicle the local dict is returned.
UpdateDataDetailed(c, r) ==
    LET b == LoopBody(c, r)
    IN  IF b.kind = "raise" THEN Raised(OuterExcept(b.exc))
        ELSE IF c.idx = Len(c.vehicles_list) THEN Return(b.data)
        ELSE Continue([c EXCEPT !.data = b.data, !.idx = c.idx + 1])

\* DataWhileRunning for a cycle that fills coordinator.data in place.
DataWhileRunningInPlace(published, c) == c.data

\* coordinator.py:78: the cycle fills a local dict, so coordinator.data is
\* what it was for as long as the cycle c runs.
DataWhileRunning(published, c) == published

\* ------------------------------------------------------------ environment
\* The outcomes of the HTTP session the model explores for each request.
EnvFailures ==
    { Http(401, "json", <<>>), Http(500, "json", <<>>),
      TransportRaises("ClientConnectorError"), TransportRaises("TimeoutError") }
Env == [list |-> { Http(200, "json", l) : l \in Listings } \cup EnvFailures,
        detail |-> { Http(200, "json", d) : d \in Details } \cup EnvFailures,
        write |-> { Http(200, "json", <<>>) } \cup EnvFailures]

\* ------------------------------------------------- the refresh scheduler
\* A new cycle of instance e is started: _async_update_data runs up to its
\* first await, the get_vehicles() call.
StartCycle(e, t) ==
    LET free == Slots \ { c.slot : c \in InFlight(e) }
    IN  /\ free # {}
        /\ cycles' = cycles \cup
                       {NewCycle(e, CHOOSE n \in free : \A m \in free : n <= m, t)}

\* requestRefresh(): a request that arrives while a cycle is in flight
\* attaches itself to it, otherwise a cycle is started.
RequestRefresh(e, t) ==
    IF InFlight(e) # {}
    THEN UNCHANGED cycles
    ELSE StartCycle(e, t)

\* The snapshot the scheduler publishes for the outcome of a cycle: the new
\* one on success, the previous one otherwise.
Published(previous, step) ==
    IF step.kind = "return" THEN step.data ELSE previous

\* ---------------------------------------------------------- __init__.py
\* SetupAfterFirstRefresh with the coordinator stored before the outcome of
\* the first refresh is looked at.
SetupStoreFirst(e, step) ==
    /\ setup' = [setup EXCEPT ![e] = IF step.kind = "raise" THEN "failed"
                                     ELSE "platforms"]
    /\ active' = Append(active, e)
    /\ devices' = devices \cup { <<e, v>> : v \in DOMAIN step.data }

\* async_setup_entry after the first refresh: a failure propagates and
\* nothing else happens; otherwise the coordinator is stored and a device is
\* registered for every vehicle of the snapshot.
SetupAfterFirstRefresh(e, step) ==
    IF step.kind = "raise"
    THEN /\ setup' = [setup EXCEPT ![e] = "failed"]
         /\ UNCHANGED <<active, devices>>
    ELSE /\ setup' = [setup EXCEPT ![e] = "platforms"]
         /\ active' = Append(active, e)
         /\ devices' = devices \cup { <<e, v>> : v \in DOMAIN step.data }

\* _async_register_services: nothing is registered when add_odometer_record
\* already is.
RegisterServices(registered) ==
    IF SERVICE_ADD_ODOMETER \in registered THEN registered
    ELSE registered \cup Services

\* RegisterCalls without the has_service check.
RegisterCallsUnguarded(count, registered) ==
    [s \in Services |-> count[s] + 1]

\* _async_register_services: the async_register calls made so far, per
\* service; none is made when add_odometer_record is registered already.
RegisterCalls(count, registered) ==
    IF SERVICE_ADD_ODOMETER \in registered THEN count
    ELSE [s \in Services |-> count[s] + 1]

\* GetCoordinatorForVehicle that returns the coordinator stored last among
\* those whose data has the vehicle.
GetCoordinatorLastStored(vehicle_id) ==
    LET hits == { i \in 1..Len(active) : vehicle_id \in DOMAIN data[active[i]] }
    IN  IF hits = {} THEN "none"
        ELSE active[CHOOSE i \in hits : \A j \in hits : i >= j]

\* GetCoordinatorForVehicle that takes the first stored coordinator without
\* looking at its data.
GetCoordinatorFirstStored(vehicle_id) ==
    IF Len(active) = 0 THEN "none" ELSE active[1]

\* _get_coordinator_for_vehicle: the first stored coordinator, in insertion
\* order, whose data has the vehicle; "none" if there is none.
GetCoordinatorForVehicle(vehicle_id) ==
    LET hits == { i \in 1..Len(active) : vehicle_id \in DOMAIN data[active[i]] }
    IN  IF hits = {} THEN "none"
        ELSE active[CHOOSE i \in hits : \A j \in hits : i <= j]

\* HandlerRefresh that runs a refresh of its own, whatever is in flight.
HandlerRefreshDirect(e, t) == StartCycle(e, t)

\* "Refresh data after adding record": await coordinator.async_request_refresh()
HandlerRefresh(e, t) == RequestRefresh(e, t)

\* ----------------------------------------------------------------- actions
\* A cycle ends: the scheduler publishes its outcome, the handler awaiting it
\* resumes and returns, and a setup awaiting its first refresh goes on.
EndCycle(c, step) ==
    LET e == c.entry
        ok == step.kind = "return"
    IN  /\ cycles' = cycles \ {c}
        /\ data' = [data EXCEPT ![e] = Published(@, step)]
        /\ last_exception' = [last_exception EXCEPT ![e] =
                                 IF ok THEN "none" ELSE step.exc]
        /\ call' = IF call.state = "awaiting" /\ call.entry = e
                      /\ call.slot = c.slot
                   THEN [NoCall EXCEPT !.state = "done",
                                       !.result = IF ok THEN "snapshot" ELSE step.exc]
                   ELSE call
        /\ IF setup[e] = "first_refresh"
           THEN SetupAfterFirstRefresh(e, step)
           ELSE UNCHANGED <<setup, active, devices>>
        /\ UNCHANGED <<sensors, services, req,
                   registrations, options, proj, run, client, flow>>

\* A cycle goes on to its next await: the next get_vehicle_info() call.
ContinueCycle(c, step, env) ==
    \E t \in env.detail :
        /\ cycles' = (cycles \ {c}) \cup {[step.cycle EXCEPT !.response = t]}
        /\ data' = [data EXCEPT ![c.entry] = DataWhileRunning(@, step.cycle)]
        /\ UNCHANGED <<setup, active, last_exception,
                       devices, sensors, services, call, req,
                   registrations, options, proj, run, client, flow>>

Resume(c, step, env) ==
    IF step.kind = "continue" THEN ContinueCycle(c, step, env)
    ELSE EndCycle(c, step)

\* async_setup_entry up to the await of the first refresh.
SetupEntry(e, env) ==
    /\ setup[e] = "not_loaded"
    /\ setup' = [setup EXCEPT ![e] = "first_refresh"]
    /\ \E t \in env.list : StartCycle(e, t)
    /\ UNCHANGED <<active, data, last_exception, devices, sensors,
                   services, call, req,
                   registrations, options, proj, run, client, flow>>

\* ------------------------------------------- const.py, import of sensor.py
\* The names const.py defines, with their values (DEFAULT_SCAN_INTERVAL, a
\* timedelta, by its name only).
Const ==
    ("DOMAIN" :> "lubelogger") @@ ("MANUFACTURER" :> "LubeLogger")
    @@ ("CONF_URL" :> "url")
    @@ ("API_VEHICLES" :> "/api/vehicles")
    @@ ("API_VEHICLE_INFO" :> "/api/vehicle/info")
    @@ ("API_ADD_ODOMETER" :> "/api/vehicle/odometerrecords/add")
    @@ ("API_ADD_GAS" :> "/api/vehicle/gasrecords/add")
    @@ ("API_ADD_REMINDER" :> "/api/vehicle/reminders/add")
    @@ ("SENSOR_SERVICE_COST" :> "service_record_cost")
    @@ ("SENSOR_REPAIR_COST" :> "repair_record_cost")
    @@ ("SENSOR_UPGRADE_COST" :> "upgrade_record_cost")
    @@ ("SENSOR_TAX_COST" :> "tax_record_cost")
    @@ ("SENSOR_GAS_COST" :> "gas_record_cost")
    @@ ("SENSOR_ODOMETER" :> "last_reported_odometer")
    @@ ("SENSOR_NEXT_REMINDER" :> "next_reminder")
    @@ ("UNIT_TYPE_CURRENCY" :> "currency")
    @@ ("UNIT_TYPE_DISTANCE" :> "distance")
    @@ ("CONF_DISTANCE_UNIT" :> "distance_unit")
    @@ ("DISTANCE_UNIT_MILES" :> "miles")
    @@ ("DISTANCE_UNIT_KILOMETERS" :> "kilometers")
    @@ ("SERVICE_ADD_ODOMETER" :> SERVICE_ADD_ODOMETER)
    @@ ("SERVICE_ADD_GAS" :> SERVICE_ADD_GAS)
    @@ ("SERVICE_ADD_REMINDER" :> SERVICE_ADD_REMINDER)
    @@ ("ATTR_REMINDER_ID" :> "reminder_id")
    @@ ("ATTR_URGENCY" :> "urgency")
    @@ ("ATTR_METRIC" :> "metric")
    @@ ("ATTR_DUE_DATE" :> "due_date")
    @@ ("ATTR_DUE_ODOMETER" :> "due_odometer")
    @@ ("ATTR_DUE_DAYS" :> "due_days")
    @@ ("ATTR_DUE_DISTANCE" :> "due_distance")
    @@ ("ATTR_TAGS" :> "tags")

ConstNames == DOMAIN Const \cup {"DEFAULT_SCAN_INTERVAL"}

\* The names sensor.py imports from const.py.
SensorImports ==
    {"ATTR_DUE_DATE", "ATTR_DUE_DAYS", "ATTR_DUE_DISTANCE", "ATTR_DUE_ODOMETER",
     "ATTR_LAST_COST", "ATTR_LAST_DATE", "ATTR_LAST_FUEL_CONSUMED",
     "ATTR_LAST_ODOMETER", "ATTR_METRIC", "ATTR_REMINDER_ID", "ATTR_TAGS",
     "ATTR_URGENCY", "CONF_DISTANCE_UNIT", "DISTANCE_UNIT_KILOMETERS",
     "DISTANCE_UNIT_MILES", "DOMAIN", "SENSOR_GAS_COST", "SENSOR_NEXT_REMINDER",
     "SENSOR_ODOMETER", "SENSOR_REPAIR_COST", "SENSOR_SERVICE_COST",
     "SENSOR_TAX_COST", "SENSOR_UPGRADE_COST", "UNIT_TYPE_CURRENCY",
     "UNIT_TYPE_DISTANCE"}

\* "from .const import (...)" given the names the module const has: the
\* import of sensor.py raises ImportError when one of them is not defined.
FromConstImport(names, defined) ==
    IF names \subseteq defined THEN Ok(<<>>) ELSE Raise("ImportError")

\* Importing sensor.py.
SensorModule == FromConstImport(SensorImports, ConstNames)

\* The rest of async_setup_entry: the sensor platform is set up (one sensor
\* per vehicle of coordinator.data and description) and the services are
\* registered.  A platform whose module does not import sets no entity up;
\* the entry's setup goes on.
PlatformSetup(e) ==
    /\ setup[e] = "platforms"
    /\ setup' = [setup EXCEPT ![e] = "loaded"]
    /\ sensors' = IF SensorModule.kind = "ok"
                  THEN sensors \cup
                       { <<e, v, k>> : v \in DOMAIN data[e], k \in SensorKeys }
                  ELSE sensors
    /\ services' = RegisterServices(services)
    /\ registrations' = RegisterCalls(registrations, services)
    /\ UNCHANGED <<active, data, last_exception, cycles,
                   devices, call, req, options, proj, run, client, flow>>

\* UnloadEntry that removes the services with the last stored coordinator.
UnloadEntryRemovesServices(e) ==
    /\ setup[e] = "loaded"
    /\ \E unload_ok \in BOOLEAN :
          IF unload_ok
          THEN /\ setup' = [setup EXCEPT ![e] = "unloaded"]
               /\ active' = SelectSeq(active, LAMBDA x : x # e)
               /\ sensors' = { s \in sensors : s[1] # e }
               /\ services' = IF SelectSeq(active, LAMBDA x : x # e) = <<>>
                              THEN {} ELSE services
          ELSE UNCHANGED <<setup, active, sensors, services>>
    /\ UNCHANGED <<data, last_exception, cycles, devices,
                   call, req,
                   registrations, options, proj, run, client, flow>>

\* UnloadEntry that pops the coordinator whatever the platforms' unload gave.
UnloadEntryPopsAlways(e) ==
    /\ setup[e] = "loaded"
    /\ \E unload_ok \in BOOLEAN :
          /\ setup' = [setup EXCEPT ![e] = IF unload_ok THEN "unloaded" ELSE @]
          /\ active' = SelectSeq(active, LAMBDA x : x # e)
          /\ sensors' = IF unload_ok THEN { s \in sensors : s[1] # e }
                        ELSE sensors
    /\ UNCHANGED <<data, last_exception, cycles, devices,
                   services, call, req,
                   registrations, options, proj, run, client, flow>>

\* async_unload_entry: the coordinator is popped iff the platforms unloaded.
UnloadEntry(e) ==
    /\ setup[e] = "loaded"
    /\ \E unload_ok \in BOOLEAN :
          IF unload_ok
          THEN /\ setup' = [setup EXCEPT ![e] = "unloaded"]
               /\ active' = SelectSeq(active, LAMBDA x : x # e)
               /\ sensors' = { s \in sensors : s[1] # e }
          ELSE UNCHANGED <<setup, active, sensors>>
    /\ UNCHANGED <<data, last_exception, cycles, devices,
                   services, call, req,
                   registrations, options, proj, run, client, flow>>

\* The update interval elapses.
TimerTick(e, env) ==
    /\ setup[e] = "loaded"
    /\ \E t \in env.list : RequestRefresh(e, t)
    /\ UNCHANGED <<setup, active, data, last_exception, devices,
                   sensors, services, call, req,
                   registrations, options, proj, run, client, flow>>

\* The get_vehicles() call of cycle c completes.
ListResponse(c, env) ==
    /\ c.pc = "listing"
    /\ Resume(c, UpdateDataListed(c, Request(c.response)), env)

\* The get_vehicle_info() call of cycle c completes.
DetailResponse(c, env) ==
    /\ c.pc = "detail"
    /\ Resume(c, UpdateDataDetailed(c, Request(c.response)), env)

\* A registered service is invoked: the handler looks the coordinator up
\* and issues the write call, or logs an error and returns.
ServiceCall(op, vehicle_id) ==
    /\ op \in services
    /\ call.state \notin {"writing", "awaiting"}
    /\ LET coordinator == GetCoordinatorForVehicle(vehicle_id)
       IN  IF coordinator = "none"
           THEN call' = [NoCall EXCEPT !.state = "not_found"]
           ELSE call' = [NoCall EXCEPT !.state = "writing", !.op = op,
                                       !.vehicle_id = vehicle_id,
                                       !.entry = coordinator]
    /\ UNCHANGED <<setup, active, data, last_exception,
                   cycles, devices, sensors, services, req,
                   registrations, options, proj, run, client, flow>>

\* WriteResponse with the refresh request in a finally clause: it is made
\* whatever the write call did.
WriteResponseRefreshAlways(t, env) ==
    /\ call.state = "writing"
    /\ LET r == Request(t)
           e == call.entry
       IN  /\ \E tl \in env.list : HandlerRefresh(e, tl)
           /\ call' = IF r.kind = "ok"
                      THEN [call EXCEPT !.state = "awaiting",
                                        !.attached = (cycles' = cycles),
                                        !.slot = (CHOOSE c \in cycles' : c.entry = e).slot]
                      ELSE [NoCall EXCEPT
                              !.state = IF IsInstance(r.exc, "LubeLoggerApiError")
                                        THEN "logged_error" ELSE "raised",
                              !.result = r.exc]
    /\ UNCHANGED <<setup, active, data, last_exception, devices,
                   sensors, services, req,
                   registrations, options, proj, run, client, flow>>

\* The write call completes with the outcome t of the HTTP session: on
\* success the handler requests a refresh and awaits it; a
\* LubeLoggerApiError is logged and the handler returns; anything else
\* propagates to the caller of the service.
WriteResponse(t, env) ==
    /\ call.state = "writing"
    /\ LET r == Request(t)
           e == call.entry
       IN  IF r.kind = "ok"
           THEN /\ \E tl \in env.list : HandlerRefresh(e, tl)
                /\ call' = [call EXCEPT
                              !.state = "awaiting",
                              !.attached = (cycles' = cycles),
                              !.slot = (CHOOSE c \in cycles' :
                                          /\ c.entry = e
                                          /\ cycles' # cycles => c \notin cycles).slot]
           ELSE /\ call' = [NoCall EXCEPT
                              !.state = IF IsInstance(r.exc, "LubeLoggerApiError")
                                        THEN "logged_error" ELSE "raised",
                              !.result = r.exc]
                /\ UNCHANGED cycles
    /\ UNCHANGED <<setup, active, data, last_exception, devices,
                   sensors, services, req,
                   registrations, options, proj, run, client, flow>>

\* One configured instance, every outcome of the HTTP session.
Next ==
    \/ SetupEntry("e1", Env)
    \/ PlatformSetup("e1")
    \/ UnloadEntry("e1")
    \/ TimerTick("e1", Env)
    \/ \E c \in cycles : ListResponse(c, Env)
    \/ \E c \in cycles : DetailResponse(c, Env)
    \/ \E op \in Services, v \in VehicleIds : ServiceCall(op, v)
    \/ \E t \in Env.write : WriteResponse(t, Env)

Spec == Init /\ [][Next]_vars

\* ------------------------------------------------- several instances
\* async_setup_entry of an entry that was unloaded or whose setup failed: a
\* new coordinator is made, with nothing published, and refreshed.
SetupAgain(e, env) ==
    /\ setup[e] \in {"unloaded", "failed"}
    /\ setup' = [setup EXCEPT ![e] = "first_refresh"]
    /\ data' = [data EXCEPT ![e] = NoSnapshot]
    /\ last_exception' = [last_exception EXCEPT ![e] = "none"]
    /\ \E t \in env.list : StartCycle(e, t)
    /\ UNCHANGED <<active, devices, sensors, services, call, req,
                   registrations, options, proj, run, client, flow>>

\* The outcomes explored with two instances: each server lists vehicle 1 or
\* vehicle 2, and a listing or a write call may be answered with 500.
EnvMulti ==
    [list |-> { Http(200, "json", <<Summary(v)>>) : v \in VehicleIds }
                \cup { Http(500, "json", <<>>) },
     detail |-> { Http(200, "json", d) : d \in Details },
     write |-> { Http(200, "json", <<>>), Http(500, "json", <<>>) }]

\* Two configured instances; the first can be set up again after an unload
\* or a failed setup.
NextMulti ==
    \/ \E e \in Entries : SetupEntry(e, EnvMulti)
    \/ SetupAgain("e1", EnvMulti)
    \/ \E e \in Entries : PlatformSetup(e)
    \/ \E e \in Entries : UnloadEntry(e)
    \/ \E c \in cycles : ListResponse(c, EnvMulti)
    \/ \E c \in cycles : DetailResponse(c, EnvMulti)
    \/ \E op \in Services, v \in VehicleIds : ServiceCall(op, v)
    \/ \E t \in EnvMulti.write : WriteResponse(t, EnvMulti)

SpecMulti == Init /\ [][NextMulti]_vars

\* ------------------------------------------------- varying detail objects
\* Detail objects that differ from one refresh to the next: odometer readings
\* that go up and down, with and without a field that the summary has too.
DetailsVaried ==
    { [lastReportedOdometer |-> 1], [lastReportedOdometer |-> 2],
      [make |-> "Detail", lastReportedOdometer |-> 2] }

EnvVaried ==
    [list |-> { Http(200, "json", <<Summary(1)>>),
                Http(200, "json", <<Summary(1), Summary(2)>>),
                Http(500, "json", <<>>) },
     detail |-> { Http(200, "json", d) : d \in DetailsVaried }
                  \cup { Http(500, "json", <<>>) },
     write |-> { Http(200, "json", <<>>) }]

\* One instance that is set up and refreshed by the timer.
NextVaried ==
    \/ SetupEntry("e1", EnvVaried)
    \/ PlatformSetup("e1")
    \/ TimerTick("e1", EnvVaried)
    \/ \E c \in cycles : ListResponse(c, EnvVaried)
    \/ \E c \in cycles : DetailResponse(c, EnvVaried)

SpecVaried == Init /\ [][NextVaried]_vars

\* ------------------------------------------------- whole refresh cycles
\* The for loop of _async_update_data from the cycle c on, outcomes[v] being
\* the result of get_vehicle_info(v).
RECURSIVE RunLoop(_, _)
RunLoop(c, outcomes) ==
    LET step == UpdateDataDetailed(c, outcomes[c.vehicles_list[c.idx].id])
    IN  IF step.kind = "continue" THEN RunLoop(step.cycle, outcomes) ELSE step

\* One whole run of _async_update_data of instance e: listed is the result of
\* get_vehicles().
RunUpdateData(e, listed, outcomes) ==
    LET step == UpdateDataListed(NewCycle(e, 1, TransportRaises("none")), listed)
    IN  IF step.kind = "continue" THEN RunLoop(step.cycle, outcomes) ELSE step

\* The results get_vehicle_info can give: a detail object, a classified
\* failure, an unclassified one.
DetailOutcomes ==
    { Request(t) : t \in EnvVaried.detail \cup
                           { Http(401, "json", <<>>), TransportRaises("TimeoutError") } }

ListOutcomes ==
    { Request(Http(200, "json", l)) : l \in Listings }
      \cup { Request(Http(500, "json", <<>>)) }

\* A refresh of the loaded instance e from the timer to the publication of
\* its outcome, with no other refresh in flight.
RunCycle(e, listed, outcomes) ==
    /\ setup[e] = "loaded"
    /\ InFlight(e) = {}
    /\ LET step == RunUpdateData(e, listed, outcomes)
       IN  /\ run' = [op |-> "cycle", entry |-> e, listed |-> listed,
                      outcomes |-> outcomes, previous |-> data[e], step |-> step]
           /\ data' = [data EXCEPT ![e] = Published(@, step)]
           /\ last_exception' = [last_exception EXCEPT ![e] =
                                    IF step.kind = "return" THEN "none"
                                    ELSE step.exc]
    /\ UNCHANGED <<setup, active, cycles, devices, sensors, services, call,
                   req, registrations, options, proj, client, flow>>

\* Instance e1 is loaded; its first refresh listed no vehicle.
InitCycle ==
    /\ setup = [e \in Entries |-> IF e = "e1" THEN "loaded" ELSE "not_loaded"]
    /\ active = <<"e1">>
    /\ data = [e \in Entries |-> NoSnapshot]
    /\ last_exception = [e \in Entries |-> "none"]
    /\ cycles = {}
    /\ devices = {}
    /\ sensors = {}
    /\ services = Services
    /\ call = NoCall
    /\ req = NoReq
    /\ registrations = [s \in Services |-> 1]
    /\ options = [e \in Entries |-> NoOptions]
    /\ proj = NoProj
    /\ run = NoRun
    /\ client = DefaultClient
    /\ flow = NoFlow

NextCycle ==
    \E listed \in ListOutcomes, outcomes \in [VehicleIds -> DetailOutcomes] :
        RunCycle("e1", listed, outcomes)

SpecCycle == InitCycle /\ [][NextCycle]_vars

\* ------------------------------------------------------- the _request spec
\* The calls the client makes through _request.
ReqOps ==
    {[name |-> "get_vehicles", vehicle_id |-> 0]}
      \cup { [name |-> n, vehicle_id |-> v] :
               n \in {"get_vehicle_info"} \cup Services, v \in VehicleIds }

ReqValues(op) ==
    IF op.name = "get_vehicles" THEN Listings
    ELSE IF op.name = "get_vehicle_info" THEN Details
    ELSE {<<>>}

\* One call of _request with the outcome t of the HTTP session.
DoRequest(op, t) ==
    /\ req' = [op |-> op.name, vehicle_id |-> op.vehicle_id, transport |-> t,
               result |-> Request(t), headers |-> GetHeaders(client)]
    /\ UNCHANGED <<setup, active, data, last_exception, cycles,
                   devices, sensors, services, call,
                   registrations, options, proj, run, client, flow>>

NextReq == \E op \in ReqOps : \E t \in Transports(ReqValues(op)) : DoRequest(op, t)

\* The client is constructed with any username and password.
InitReq == \E u, p \in Credentials : InitWith(NewClient(u, p))

SpecReq == InitReq /\ [][NextReq]_vars

\* ----------------------------------------------------------------- claims
\* The cycle c makes a step in this transition and is over after it.
Ends(c) ==
    /\ c \notin cycles'
    /\ \A d \in cycles' : d.entry # c.entry \/ d.slot # c.slot

\* The local dict of cycle c after its step in this transition: the published
\* snapshot if the cycle returned, the dict of the continuing cycle otherwise.
DictAfter(c) ==
    IF Ends(c) THEN data'[c.entry]
    ELSE (CHOOSE d \in cycles' : d.entry = c.entry /\ d.slot = c.slot).data

\* What the outstanding request of cycle c gives.
Result(c) == Request(c.response)

Classified(r) == r.kind = "raise" /\ IsInstance(r.exc, "LubeLoggerApiError")

\* C1: whenever a cycle whose listing succeeded returns a snapshot, the key
\* set of the published snapshot is exactly the set of ids of that cycle's
\* listing: no listed vehicle is missing, no unlisted one is present.
C1_KeySetIsListing ==
    [][\A c \in cycles :
          LET listing == IF c.pc = "listing" THEN Result(c).value
                         ELSE c.vehicles_list
          IN  (/\ Ends(c)
               /\ last_exception'[c.entry] = "none"
               /\ (c.pc = "listing" => Result(c).kind = "ok"))
              => DOMAIN data'[c.entry] = Ids(listing)]_vars

\* A published snapshot with both vehicles, one of them summary-only.
C1_Witness ==
    /\ setup["e1"] = "loaded"
    /\ DOMAIN data["e1"] = {1, 2}
    /\ data["e1"][2] = Summary(2)
    /\ data["e1"][1] # Summary(1)

\* C2: a detail call that succeeds or fails with a classified client error
\* never aborts the cycle; the entry of that vehicle is exactly its summary
\* if the call failed and the summary merged with the detail if it
\* succeeded, and the entries made for the earlier vehicles are kept.
C2_DetailFailureKeepsCycle ==
    [][\A c \in cycles :
          LET r == Result(c)
              vehicle == c.vehicles_list[c.idx]
          IN  (c.pc = "detail" /\ c \notin cycles' /\ (r.kind = "ok" \/ Classified(r)))
              => /\ Ends(c) <=> c.idx = Len(c.vehicles_list)
                 /\ Ends(c) => last_exception'[c.entry] = "none"
                 /\ DOMAIN DictAfter(c) = DOMAIN c.data \cup {vehicle.id}
                 /\ DictAfter(c)[vehicle.id] =
                       IF r.kind = "ok" THEN Merge(vehicle, r.value) ELSE vehicle
                 /\ \A w \in DOMAIN c.data \ {vehicle.id} :
                       DictAfter(c)[w] = c.data[w]]_vars

\* A published snapshot in which every detail call failed, after a cycle
\* that was not the first (the first snapshot had vehicle 1 only).
C2_Witness ==
    /\ setup["e1"] = "loaded"
    /\ devices = {<<"e1", 1>>}
    /\ InFlight("e1") = {}
    /\ last_exception["e1"] = "none"
    /\ DOMAIN data["e1"] = {1, 2}
    /\ \A v \in {1, 2} : data["e1"][v] = Summary(v)

\* C3: in a cycle after the first, an authentication error of the listing
\* call ends the cycle with ConfigEntryAuthFailed and leaves the published
\* snapshot as it was.
C3_AuthFailureKeepsSnapshot ==
    [][\A c \in cycles :
          (/\ c.pc = "listing"
           /\ setup[c.entry] # "first_refresh"
           /\ Result(c) = Raise("LubeLoggerAuthError")
           /\ c \notin cycles')
          => /\ Ends(c)
             /\ last_exception'[c.entry] = "ConfigEntryAuthFailed"
             /\ data'[c.entry] = data[c.entry]]_vars

\* A loaded instance whose last cycle failed on authentication and whose
\* snapshot still has a vehicle.
C3_Witness ==
    /\ setup["e1"] = "loaded"
    /\ last_exception["e1"] = "ConfigEntryAuthFailed"
    /\ DOMAIN data["e1"] # {}

\* C4: in a cycle after the first, a connection or API error of the listing
\* call ends the cycle with UpdateFailed and leaves the published snapshot
\* as it was.
C4_TransientFailureKeepsSnapshot ==
    [][\A c \in cycles :
          (/\ c.pc = "listing"
           /\ setup[c.entry] # "first_refresh"
           /\ Result(c) \in {Raise("LubeLoggerConnectionError"),
                             Raise("LubeLoggerApiError")}
           /\ c \notin cycles')
          => /\ Ends(c)
             /\ last_exception'[c.entry] = "UpdateFailed"
             /\ data'[c.entry] = data[c.entry]]_vars

\* A loaded instance whose last cycle failed transiently and whose snapshot
\* still has a merged entry.
C4_Witness ==
    /\ setup["e1"] = "loaded"
    /\ last_exception["e1"] = "UpdateFailed"
    /\ \E v \in DOMAIN data["e1"] : data["e1"][v] # Summary(v)

\* What _async_update_data does at the await cycle c is suspended at.
Step(c) ==
    IF c.pc = "listing" THEN UpdateDataListed(c, Result(c))
    ELSE UpdateDataDetailed(c, Result(c))

\* C5: at most one refresh cycle of a coordinator is in flight at any time,
\* whatever timer ticks and refresh requests of write handlers arrive
\* meanwhile, and a cycle in flight is never cancelled: it goes on to its
\* next await or ends with the outcome of its own calls.
C5_SingleFlight ==
    [][/\ \A e \in Entries : Cardinality({ c \in cycles' : c.entry = e }) <= 1
       /\ \A c \in cycles :
             c \notin cycles'
             => IF Step(c).kind = "continue"
                THEN \E d \in cycles' :
                        d = [Step(c).cycle EXCEPT !.response = d.response]
                ELSE /\ Ends(c)
                     /\ last_exception'[c.entry] =
                           IF Step(c).kind = "return" THEN "none" ELSE Step(c).exc]_vars

\* A write handler whose refresh request arrived while a cycle was in
\* flight: it awaits that cycle, whose listing call was issued before the
\* write returned.
C5_Witness ==
    /\ call.state = "awaiting"
    /\ call.attached
    /\ \E c \in cycles : c.entry = call.entry /\ c.slot = call.slot

\* C6: when the first refresh of an instance fails, the setup fails with
\* the error of the cycle and nothing later in the setup has happened: the
\* coordinator is not stored, no device and no sensor of the instance
\* exists and the setup has registered no service.
C6_FirstRefreshFailureIsFatal ==
    [][/\ \A c \in cycles :
             (/\ setup[c.entry] = "first_refresh"
              /\ c.pc = "listing"
              /\ Result(c).kind = "raise"
              /\ c \notin cycles')
             => /\ setup'[c.entry] = "failed"
                /\ last_exception'[c.entry] = OuterExcept(Result(c).exc)
                /\ UNCHANGED <<active, devices, sensors, services>>
       /\ \A e \in Entries :
             setup'[e] = "failed"
             => /\ \A i \in 1..Len(active') : active'[i] # e
                /\ \A d \in devices' : d[1] # e
                /\ \A x \in sensors' : x[1] # e
                /\ (services' # {} =>
                       \E o \in Entries \ {e} : setup'[o] \in {"loaded", "unloaded"})
                /\ last_exception'[e] # "none"]_vars

\* An instance whose setup failed on the authentication error of its first
\* listing call.
C6_Witness ==
    /\ setup["e1"] = "failed"
    /\ last_exception["e1"] = "ConfigEntryAuthFailed"
    /\ active = <<>>

\* C7: the published snapshot changes only in the step in which a cycle
\* returns, after the last listed vehicle has been processed, and then to a
\* snapshot that has every listed vehicle; while a cycle runs a reader sees
\* the snapshot that was published before it.
C7_PublishIsAtomic ==
    [][\A e \in Entries :
          /\ data'[e] # data[e]
             => \E c \in InFlight(e) :
                   /\ Ends(c)
                   /\ \/ c.pc = "listing" /\ Result(c) = Ok(<<>>)
                      \/ c.pc = "detail" /\ c.idx = Len(c.vehicles_list)
                   /\ DOMAIN data'[e] = Ids(c.vehicles_list)
          /\ \A c \in InFlight(e) : ~Ends(c) => data'[e] = data[e]]_vars

\* A cycle that has processed its first vehicle and awaits the detail of the
\* second, while the published snapshot is the one of the previous cycle.
C7_Witness ==
    \E c \in cycles :
        /\ setup[c.entry] = "loaded"
        /\ c.pc = "detail"
        /\ c.idx = 2
        /\ DOMAIN c.data # DOMAIN data[c.entry]
        /\ DOMAIN data[c.entry] # {}

\* C8 (as claimed): when the listing is vehicles 1 and 2, the detail of 1
\* succeeded and the detail call of 2 times out, the cycle returns the
\* snapshot {1: merged, 2: summary-only}.
C8_TimeoutIsWarning ==
    [][\A c \in cycles :
          (/\ c.pc = "detail"
           /\ c.vehicles_list = <<Summary(1), Summary(2)>>
           /\ c.idx = 2
           /\ c.data[1] # Summary(1)
           /\ c.response = TransportRaises("TimeoutError")
           /\ c \notin cycles')
          => /\ last_exception'[c.entry] = "none"
             /\ data'[c.entry] = Put(c.data, 2, Summary(2))]_vars

\* C9 (as claimed): every call of _request that fails ends in one of the
\* three error kinds: 401/403 in LubeLoggerAuthError, a transport failure in
\* LubeLoggerConnectionError, any other non-2xx status or a malformed body in
\* LubeLoggerApiError.
C9_EveryFailureClassified ==
    req.op # "none" =>
        LET t == req.transport
            r == req.result
        IN  /\ r.kind = "raise" =>
                  r.exc \in {"LubeLoggerAuthError", "LubeLoggerConnectionError",
                             "LubeLoggerApiError"}
            /\ (t.kind = "http" /\ t.status \in {401, 403})
                  => r = Raise("LubeLoggerAuthError")
            /\ t.kind = "raise" => r = Raise("LubeLoggerConnectionError")
            /\ (t.kind = "http" /\ t.status \notin {401, 403}
                  /\ (t.status \notin 200..299 \/ t.body # "json"))
                  => r = Raise("LubeLoggerApiError")

\* C10 (as claimed): when the refresh requested by a successful write has
\* completed with a snapshot, that snapshot is the result of a cycle whose
\* listing call was issued after the write call returned.
C10_SnapshotReflectsWrite ==
    [][(call.state = "awaiting" /\ call'.state = "done"
           /\ call'.result = "snapshot")
       => ~call.attached]_vars

\* C11 (as claimed): when the write call of a service invocation fails with
\* one of the three classified errors, the invocation ends with that error
\* raised to its caller.
C11_WriteFailureReported ==
    [][(/\ call.state = "writing"
        /\ call'.state \in {"logged_error", "raised"}
        /\ IsInstance(call'.result, "LubeLoggerApiError"))
       => call'.state = "raised"]_vars

\* C12: a write call that fails starts no cycle and leaves the published
\* snapshots and the outcome of the last cycles as they were; a write call
\* that succeeds has its refresh requested: a cycle is started, or the
\* request is attached to the one in flight.
C12_FailedWriteHasNoEffect ==
    [][(call.state = "writing" /\ call'.state # "writing")
       => /\ call'.state \in {"logged_error", "raised", "awaiting"}
          /\ call'.state \in {"logged_error", "raised"}
                => /\ call'.result # "none"
                   /\ cycles' = cycles
                   /\ data' = data
                   /\ last_exception' = last_exception
          /\ call'.state = "awaiting"
                => /\ call'.result = "none"
                   /\ data' = data
                   /\ \/ call'.attached /\ cycles' = cycles /\ cycles # {}
                      \/ /\ ~call'.attached
                         /\ \E c \in cycles' \ cycles :
                               /\ cycles' = cycles \cup {c}
                               /\ c.entry = call'.entry
                               /\ c.pc = "listing"]_vars

\* A write call has failed on the connection while no cycle was in flight,
\* and none is in flight after it.
C12_Witness ==
    /\ call.state = "logged_error"
    /\ call.result = "LubeLoggerConnectionError"
    /\ cycles = {}
    /\ DOMAIN data["e1"] # {}

\* C13: no service is ever registered more than once, whatever instances
\* are set up, unloaded and set up again; while an instance is loaded all
\* three services are registered; once the services are registered no
\* setup registers anything again and nothing unregisters them.
C13_ServicesRegisteredOnce ==
    [][/\ \A x \in Services : registrations'[x] <= 1
       /\ (\E e \in Entries : setup'[e] = "loaded")
             => /\ services' = Services
                /\ \A x \in Services : registrations'[x] = 1
       /\ services # {}
             => /\ services' = services
                /\ registrations' = registrations]_vars

\* Two instances are loaded, the first of them for the second time.
C13_Witness ==
    /\ setup["e1"] = "loaded"
    /\ setup["e2"] = "loaded"
    /\ active = <<"e2", "e1">>
    /\ \A x \in Services : registrations[x] = 1

\* C14: a handler issues its write call only for a coordinator that is
\* stored at that moment and whose published snapshot has the vehicle; a
\* handler that finds no coordinator issues no call and starts no cycle,
\* and it finds none only if no stored coordinator has the vehicle.
C14_WriteOnlyThroughOwner ==
    [][(call.state \notin {"writing", "awaiting"} /\ call' # call)
       => /\ call'.state \in {"writing", "not_found"}
          /\ cycles' = cycles
          /\ call'.state = "writing"
                => /\ \E i \in 1..Len(active) : active[i] = call'.entry
                   /\ call'.vehicle_id \in DOMAIN data[call'.entry]
          /\ call'.state = "not_found"
                => \E v \in VehicleIds :
                      \A i \in 1..Len(active) : v \notin DOMAIN data[active[i]]]_vars

\* A write call is issued through the second stored coordinator, the first
\* one not having the vehicle.
C14_Witness ==
    /\ call.state = "writing"
    /\ Len(active) = 2
    /\ call.entry = active[2]
    /\ call.vehicle_id \notin DOMAIN data[active[1]]

\* ------------------------------------------------------------ sensor.py
\* JSON values of a snapshot entry: None, a number, a string, or an object
\* (a function from its keys to values).
None == [py_none |-> TRUE]
Num(n) == [py_num |-> n]
Str(t) == [py_str |-> t]

IsDict(v) == DOMAIN v \cap {"py_none", "py_num", "py_str"} = {}

\* bool(v): None, 0, "" and {} are falsy.
Truthy(v) ==
    IF "py_none" \in DOMAIN v THEN FALSE
    ELSE IF "py_num" \in DOMAIN v THEN v.py_num # 0
    ELSE IF "py_str" \in DOMAIN v THEN v.py_str # ""
    ELSE DOMAIN v # {}

\* d.get(k, default)
Get(d, k, default) == IF k \in DOMAIN d THEN d[k] ELSE default

EmptyDict == [k \in {} |-> None]

\* The source field of each sensor description's value_fn.
ValueField ==
    ("service_record_cost" :> "serviceRecordCost")
    @@ ("repair_record_cost" :> "repairRecordCost")
    @@ ("upgrade_record_cost" :> "upgradeRecordCost")
    @@ ("tax_record_cost" :> "taxRecordCost")
    @@ ("gas_record_cost" :> "gasRecordCost")
    @@ ("last_reported_odometer" :> "lastReportedOdometer")

\* description.value_fn(data) of the description with the given key.
ValueFn(key, vehicle_data) ==
    IF key = "next_reminder"
    THEN IF Truthy(Get(vehicle_data, "nextReminder", None))
         THEN IF IsDict(Get(vehicle_data, "nextReminder", EmptyDict))
              THEN Ok(Get(Get(vehicle_data, "nextReminder", EmptyDict),
                          "description", None))
              ELSE Raise("AttributeError")
         ELSE Ok(None)
    ELSE Ok(Get(vehicle_data, ValueField[key], None))

\* The attribute names of _get_reminder_attributes and the reminder's fields.
ReminderAttributes ==
    ("ATTR_REMINDER_ID" :> "id") @@ ("ATTR_URGENCY" :> "urgency")
    @@ ("ATTR_METRIC" :> "metric") @@ ("ATTR_DUE_DATE" :> "dueDate")
    @@ ("ATTR_DUE_ODOMETER" :> "dueOdometer") @@ ("ATTR_DUE_DAYS" :> "dueDays")
    @@ ("ATTR_DUE_DISTANCE" :> "dueDistance") @@ ("ATTR_TAGS" :> "tags")

\* The attribute names of _get_gas_record_attributes and the record's fields.
GasRecordAttributes ==
    ("ATTR_LAST_ODOMETER" :> "odometer") @@ ("ATTR_LAST_DATE" :> "date")
    @@ ("ATTR_LAST_FUEL_CONSUMED" :> "fuelConsumed")
    @@ ("ATTR_LAST_COST" :> "cost")

\* The body shared by _get_reminder_attributes and
\* _get_gas_record_attributes: {} for a falsy object, else one attribute per
\* name, each read with .get; a name the module does not have is a NameError.
GetAttributes(names, object) ==
    IF ~Truthy(object) THEN Ok(EmptyDict)
    ELSE IF ~(DOMAIN names \subseteq DOMAIN Const) THEN Raise("NameError")
    ELSE IF ~IsDict(object) THEN Raise("AttributeError")
    ELSE Ok([a \in { Const[n] : n \in DOMAIN names } |->
               Get(object, names[CHOOSE n \in DOMAIN names : Const[n] = a], None)])

GetReminderAttributes(reminder) == GetAttributes(ReminderAttributes, reminder)

GetGasRecordAttributes(gas_record) == GetAttributes(GasRecordAttributes, gas_record)

\* description.attributes_fn, "none" where the description has none.
AttributesFn(key, vehicle_data) ==
    IF key = "gas_record_cost"
    THEN GetGasRecordAttributes(Get(vehicle_data, "lastGasRecord", None))
    ELSE IF key = "next_reminder"
    THEN GetReminderAttributes(Get(vehicle_data, "nextReminder", None))
    ELSE Ok(None)

\* description.unit_type
UnitType(key) ==
    IF key = "next_reminder" THEN "none"
    ELSE IF key = "last_reported_odometer" THEN Const["UNIT_TYPE_DISTANCE"]
    ELSE Const["UNIT_TYPE_CURRENCY"]

\* LubeLoggerSensor.native_value
NativeValue(snapshot, vehicle_id, key) ==
    ValueFn(key, Get(snapshot, vehicle_id, EmptyDict))

\* LubeLoggerSensor.native_unit_of_measurement; currency is
\* hass.config.currency ("" where none is configured).
NativeUnitOfMeasurement(key, entry_options, currency) ==
    IF UnitType(key) = Const["UNIT_TYPE_CURRENCY"]
    THEN (IF currency # "" THEN currency ELSE "USD")
    ELSE IF UnitType(key) = Const["UNIT_TYPE_DISTANCE"]
    THEN (IF Get(entry_options, Const["CONF_DISTANCE_UNIT"],
                 Const["DISTANCE_UNIT_MILES"]) = Const["DISTANCE_UNIT_KILOMETERS"]
          THEN "km" ELSE "mi")
    ELSE "None"

\* LubeLoggerSensor.extra_state_attributes
ExtraStateAttributes(snapshot, vehicle_id, key) ==
    AttributesFn(key, Get(snapshot, vehicle_id, EmptyDict))

\* One read of the state of a sensor of entry e: the three properties are
\* code of the module sensor.py, which has to be imported first.
ReadSensor(e, vehicle_id, key, currency) ==
    /\ setup[e] = "loaded"
    /\ proj' = [op |-> "read", entry |-> e, vehicle_id |-> vehicle_id,
                key |-> key, snapshot |-> data[e], options |-> options[e],
                value |-> IF SensorModule.kind = "ok"
                          THEN NativeValue(data[e], vehicle_id, key)
                          ELSE SensorModule,
                unit |-> IF SensorModule.kind = "ok"
                         THEN Ok(NativeUnitOfMeasurement(key, options[e], currency))
                         ELSE SensorModule,
                attributes |-> IF SensorModule.kind = "ok"
                               THEN ExtraStateAttributes(data[e], vehicle_id, key)
                               ELSE SensorModule]
    /\ UNCHANGED <<setup, active, data, last_exception, cycles, devices,
                   sensors, services, call, req, registrations, options,
                   run, client, flow>>

\* ------------------------------------------------- config_flow.py, options
\* LubeLoggerOptionsFlowHandler.async_step_init with user input: the options
\* of the entry become the submitted form, whose selector offers miles and
\* kilometers.
SetOption(e, distance_unit) ==
    /\ setup[e] = "loaded"
    /\ options' = [options EXCEPT
                     ![e] = (Const["CONF_DISTANCE_UNIT"] :> distance_unit)]
    /\ UNCHANGED <<setup, active, data, last_exception, cycles, devices,
                   sensors, services, call, req, registrations, proj,
                   run, client, flow>>

\* ----------------------------------------------------- reads of sensors
\* Snapshot entries as the server's detail object can make them: each of the
\* six numeric fields present or missing, nextReminder and lastGasRecord
\* missing, null, empty, partial or complete.
NumericFields == { ValueField[k] : k \in DOMAIN ValueField }

Reminders ==
    { None, EmptyDict,
      [description |-> Str("Oil")],
      [id |-> Num(7)],
      [id |-> Num(7), description |-> Str("Oil"), urgency |-> Str("Urgent"),
       metric |-> Str("Both"), dueDate |-> Str("2025-01-01"),
       dueOdometer |-> Num(9), dueDays |-> Num(3), dueDistance |-> Num(4),
       tags |-> Str("")] }

GasRecords ==
    { None, [odometer |-> Num(5)],
      [odometer |-> Num(5), date |-> Str("2025-01-01"),
       fuelConsumed |-> Num(2), cost |-> Num(3)] }

WithField(d, k, present, value) == IF present THEN (k :> value) @@ d ELSE d

ProjEntries ==
    { WithField(WithField([k \in fields |-> Num(5)],
                          "nextReminder", has_reminder, reminder),
                "lastGasRecord", has_gas, gas_record) :
        fields \in SUBSET NumericFields,
        has_reminder \in BOOLEAN, reminder \in Reminders,
        has_gas \in BOOLEAN, gas_record \in GasRecords }

Currencies == {"", "EUR"}

\* Entry e1 is loaded with a snapshot of vehicle 1; vehicle 2 is not in it.
InitProj ==
    /\ \E entry \in ProjEntries :
          data = [e \in Entries |-> IF e = "e1" THEN (1 :> entry) ELSE NoSnapshot]
    /\ setup = [e \in Entries |-> IF e = "e1" THEN "loaded" ELSE "not_loaded"]
    /\ active = <<"e1">>
    /\ last_exception = [e \in Entries |-> "none"]
    /\ cycles = {}
    /\ devices = {<<"e1", 1>>}
    /\ sensors = IF SensorModule.kind = "ok"
                 THEN { <<"e1", 1, k>> : k \in SensorKeys } ELSE {}
    /\ services = Services
    /\ call = NoCall
    /\ req = NoReq
    /\ registrations = [s \in Services |-> 1]
    /\ options = [e \in Entries |-> NoOptions]
    /\ proj = NoProj
    /\ run = NoRun
    /\ client = DefaultClient
    /\ flow = NoFlow

NextProj ==
    \/ \E v \in VehicleIds, k \in SensorKeys, c \in Currencies :
          ReadSensor("e1", v, k, c)
    \/ \E u \in {Const["DISTANCE_UNIT_MILES"], Const["DISTANCE_UNIT_KILOMETERS"]} :
          SetOption("e1", u)

SpecProj == InitProj /\ [][NextProj]_vars

\* ------------------------------------------- reads while cycles are running
\* One instance that is set up and refreshed by the timer while its sensors
\* are read.
NextRead ==
    \/ SetupEntry("e1", EnvVaried)
    \/ PlatformSetup("e1")
    \/ TimerTick("e1", EnvVaried)
    \/ \E c \in cycles : ListResponse(c, EnvVaried)
    \/ \E c \in cycles : DetailResponse(c, EnvVaried)
    \/ \E v \in VehicleIds, k \in {"last_reported_odometer", "next_reminder"} :
          ReadSensor("e1", v, k, "")

SpecRead == Init /\ [][NextRead]_vars

\* C15: every read of a sensor (the five costs, the odometer, the
\* next-reminder description, the reminder attributes and the last-fuel
\* attributes) returns without failing, whatever fields the entry lacks and
\* also for a vehicle that is not in the snapshot: a missing source field
\* gives an absent value, a missing nested object an empty attribute set, and
\* an entry without nextReminder an absent description with an empty
\* attribute set.
C15_ProjectionTotal ==
    proj.op = "read" =>
        LET vehicle_data == Get(proj.snapshot, proj.vehicle_id, EmptyDict)
        IN  /\ proj.value.kind = "ok"
            /\ proj.attributes.kind = "ok"
            /\ (proj.key # "next_reminder"
                  /\ ValueField[proj.key] \notin DOMAIN vehicle_data)
                 => proj.value.value = None
            /\ (proj.key = "next_reminder"
                  /\ "nextReminder" \notin DOMAIN vehicle_data)
                 => /\ proj.value.value = None
                    /\ proj.attributes.value = EmptyDict
            /\ (proj.key = "gas_record_cost"
                  /\ "lastGasRecord" \notin DOMAIN vehicle_data)
                 => proj.attributes.value = EmptyDict

\* C16: a read of the odometer sensor gives the stored lastReportedOdometer
\* unchanged whatever the distance-unit option is; the unit is kilometers when
\* the option is "kilometers" and miles when it is unset or anything else; and
\* a change of the option leaves the published snapshot as it is.
C16_UnitIsLabel ==
    [][ /\ (proj' # proj /\ proj'.key = "last_reported_odometer"
              /\ proj'.vehicle_id \in DOMAIN data[proj'.entry]
              /\ "lastReportedOdometer" \in DOMAIN data[proj'.entry][proj'.vehicle_id])
             => /\ proj'.value =
                     Ok(data[proj'.entry][proj'.vehicle_id]["lastReportedOdometer"])
                /\ proj'.unit =
                     Ok(IF Get(options[proj'.entry], "distance_unit", "miles")
                             = "kilometers" THEN "km" ELSE "mi")
        /\ options' # options => data' = data ]_vars

\* C17: the odometer value projected from a published snapshot is never
\* lower than the one projected from the snapshot published before it, for
\* every vehicle that has a reading in both.
C17_OdometerNonDecreasing ==
    [][\A e \in Entries : \A v \in DOMAIN data[e] \cap DOMAIN data'[e] :
          ("lastReportedOdometer" \in DOMAIN data[e][v]
             /\ "lastReportedOdometer" \in DOMAIN data'[e][v])
          => ValueFn("last_reported_odometer", data'[e][v]).value
               >= ValueFn("last_reported_odometer", data[e][v]).value]_vars

\* C18: every request of a client (listing, detail, the three writes)
\* carries the Authorization value made at construction from the username
\* and the password, "Basic " and the base64 of "username:password", with
\* the culture-invariant header, and the client's value never changes.
C18_SameAuthorization ==
    [][ /\ client' = client
        /\ client.auth_header = CreateAuthHeader(client.username, client.password)
        /\ req'.op # "none"
             => /\ req'.headers.Authorization = client.auth_header
                /\ "culture_invariant" \in DOMAIN req'.headers ]_vars

\* A write request of the client made for "a" and "aa" carries
\* "Basic YTphYQ==".
C18_Witness ==
    /\ req.op = SERVICE_ADD_REMINDER
    /\ client.username = <<97>> /\ client.password = <<97, 97>>
    /\ req.headers.Authorization =
          [scheme |-> "Basic", encoded |-> <<24, 19, 41, 33, 24, 16, 64, 64>>]

\* C19: when the detail call of a vehicle succeeds, the vehicle's entry has
\* exactly the fields of the summary and of the detail, every detail field
\* with the detail's value (also where the summary has the field too) and
\* every other summary field with the summary's value; when the call fails
\* with a client error, the entry has the summary's fields and values only.
C19_DetailOverlaysSummary ==
    [][\A c \in cycles :
          LET r == Result(c)
              vehicle == c.vehicles_list[c.idx]
              entry == DictAfter(c)[vehicle.id]
          IN  (c.pc = "detail" /\ c \notin cycles' /\ (r.kind = "ok" \/ Classified(r)))
              => IF r.kind = "ok"
                 THEN /\ DOMAIN entry = DOMAIN vehicle \cup DOMAIN r.value
                      /\ \A k \in DOMAIN r.value : entry[k] = r.value[k]
                      /\ \A k \in DOMAIN vehicle \ DOMAIN r.value :
                            entry[k] = vehicle[k]
                 ELSE /\ DOMAIN entry = DOMAIN vehicle
                      /\ \A k \in DOMAIN vehicle : entry[k] = vehicle[k]]_vars

\* A published snapshot in which the detail of vehicle 1 replaced the
\* summary's make and added the odometer, and vehicle 2 has its summary only.
C19_Witness ==
    /\ DOMAIN data["e1"] = {1, 2}
    /\ data["e1"][1] = [id |-> 1, make |-> "Detail", lastReportedOdometer |-> 2]
    /\ data["e1"][2] = [id |-> 2, make |-> "Acme"]

\* C20: the snapshot of a cycle is determined by the listing and the result
\* of each vehicle's detail call: a cycle that gets the same listing and the
\* same results as the cycle before it returns the same snapshot although
\* another snapshot was published when it started, and the snapshot is the
\* same for every order in which the listed vehicles are fetched.
C20_SnapshotDetermined ==
    [][(run'.op = "cycle" /\ run' # run /\ run'.step.kind = "return")
         => /\ (run.op = "cycle" /\ run.listed = run'.listed
                  /\ run.outcomes = run'.outcomes)
                 => run'.step.data = run.step.data
            /\ \A l \in Listings :
                  Ids(l) = Ids(run'.listed.value)
                  => LET other == RunUpdateData(run'.entry, Ok(l), run'.outcomes)
                     IN  /\ other.kind = "return"
                         /\ other.data = run'.step.data]_vars

\* A cycle that listed vehicle 2 before vehicle 1, with the detail call of
\* vehicle 1 answered and that of vehicle 2 failed, returned its snapshot
\* while another, non-empty snapshot was the published one.
C20_Witness ==
    /\ run.op = "cycle"
    /\ run.step.kind = "return"
    /\ run.listed.value = <<Summary(2), Summary(1)>>
    /\ run.outcomes[1].kind = "ok"
    /\ run.outcomes[2].kind = "raise"
    /\ run.previous # NoSnapshot
    /\ run.previous # run.step.data
    /\ data["e1"] = run.step.data

\* C21: a read of a sensor issues no request, starts no cycle, leaves the
\* cycles in flight and the published snapshot as they are, and returns the
\* value and the attributes of the snapshot published at that moment, also
\* while a cycle is in flight.
C21_ReadsArePassive ==
    [][proj' # proj
         => /\ cycles' = cycles
            /\ data' = data
            /\ req' = req
            /\ proj'.value.kind = "ok"
            /\ proj'.value =
                  NativeValue(data[proj'.entry], proj'.vehicle_id, proj'.key)
            /\ proj'.attributes.kind = "ok"
            /\ proj'.attributes =
                  ExtraStateAttributes(data[proj'.entry], proj'.vehicle_id,
                                       proj'.key)]_vars

\* C22: a cycle ends with ConfigEntryAuthFailed exactly when its
\* get_vehicles() call raised the authentication error; a get_vehicle_info()
\* call rejected with 401 or 403 makes the vehicle's entry its summary and the
\* cycle goes on, so a cycle whose listing succeeded never ends with
\* ConfigEntryAuthFailed.
C22_AuthFailureOnlyFromListing ==
    [][\A c \in cycles :
          LET r == Result(c)
              auth == r.kind = "raise" /\ IsInstance(r.exc, "LubeLoggerAuthError")
          IN  /\ Ends(c)
                => (last_exception'[c.entry] = "ConfigEntryAuthFailed"
                      <=> (c.pc = "listing" /\ auth))
              /\ (c.pc = "detail" /\ c \notin cycles' /\ auth)
                => /\ DictAfter(c)[c.vehicles_list[c.idx].id]
                         = c.vehicles_list[c.idx]
                   /\ Ends(c) <=> c.idx = Len(c.vehicles_list)]_vars

\* A cycle whose listing succeeded went on after the failed detail call of
\* vehicle 1 with that vehicle's summary, and the detail call of vehicle 2 is
\* answered with 401.
C22_Witness ==
    \E c \in cycles :
        /\ c.pc = "detail"
        /\ c.idx = 2
        /\ c.data = (1 :> Summary(1))
        /\ c.response = Http(401, "json", <<>>)
        /\ last_exception[c.entry] = "none"

\* C23: the calls of a cycle are made one after the other: no
\* get_vehicle_info() call is issued before get_vehicles() has returned, a
\* failed listing issues none, the detail calls are issued in listing order,
\* each after the one before it has returned or failed, and a cycle whose
\* listing succeeded ends only after the detail call of the last listed
\* vehicle, so that it issues exactly one detail call per listed vehicle.
C23_CallsSequential ==
    [][\A c \in cycles :
          LET r == Result(c)
              next == CHOOSE d \in cycles' : d.entry = c.entry /\ d.slot = c.slot
          IN  /\ c.pc = "listing" => c.idx = 0
              /\ (c \notin cycles' /\ ~Ends(c))
                   => /\ next.pc = "detail"
                      /\ next.idx = c.idx + 1
                      /\ next.idx <= Len(next.vehicles_list)
                      /\ c.pc = "listing"
                           => r.kind = "ok" /\ next.vehicles_list = r.value
                      /\ c.pc = "detail"
                           => next.vehicles_list = c.vehicles_list
              /\ (Ends(c) /\ c.pc = "listing")
                   => r.kind = "raise" \/ Len(r.value) = 0
              /\ (Ends(c) /\ c.pc = "detail")
                   => c.idx = Len(c.vehicles_list)]_vars

\* C24: once an instance is set up, its sensors are one per vehicle of the
\* snapshot of its first refresh (the vehicles a device was registered for)
\* and sensor description, and no later cycle adds or removes a sensor,
\* whichever vehicles its listing has.
C24_SensorSetFixedAtSetup ==
    [][\A e \in Entries :
          /\ setup'[e] = "loaded"
               => { x \in sensors' : x[1] = e }
                    = { <<e, d[2], k>> : d \in { y \in devices' : y[1] = e },
                                         k \in SensorKeys }
          /\ (setup[e] = "loaded" /\ setup'[e] = "loaded")
               => { x \in sensors' : x[1] = e } = { x \in sensors : x[1] = e }]_vars

\* C25: a write for a vehicle that several stored coordinators have in their
\* published snapshots goes to one of them, the one stored earliest among
\* those stored now; when the write call returns, a refresh is requested of
\* that instance only, and the cycles of every other instance stay as they
\* are.
C25_WriteGoesToEarliest ==
    [][/\ (call.state \notin {"writing", "awaiting"} /\ call'.state = "writing")
            => \A i, j \in 1..Len(active) :
                  (active[i] = call'.entry
                     /\ call'.vehicle_id \in DOMAIN data[active[j]])
                  => i <= j
       /\ (call.state = "writing" /\ call' # call)
            => \A e \in Entries \ {call.entry} : InFlight(e)' = InFlight(e)]_vars

\* Both instances have vehicle 1; the first instance was unloaded and set up
\* again, so the second is the one stored earliest, and the write goes to it.
C25_Witness ==
    /\ active = <<"e2", "e1">>
    /\ 1 \in DOMAIN data["e1"]
    /\ 1 \in DOMAIN data["e2"]
    /\ call.state = "writing"
    /\ call.vehicle_id = 1
    /\ call.entry = "e2"

\* C26: an unload never unregisters a service, also not the unload of the
\* instance whose setup registered them nor that of the last one; afterwards
\* an invocation for a vehicle of a coordinator that is still stored issues
\* its write call through a stored coordinator, and an invocation made when
\* no coordinator is stored issues no call.
C26_ServicesSurviveUnload ==
    [][/\ (\E e \in Entries : setup[e] = "loaded" /\ setup'[e] # "loaded")
            => services' = services /\ services' = Services
       /\ (call.state \notin {"writing", "awaiting"} /\ call' # call)
            => /\ active = <<>> => call'.state = "not_found"
               /\ call'.state = "not_found" => cycles' = cycles
               /\ call'.state = "writing"
                    => /\ \E i \in 1..Len(active) : active[i] = call'.entry
                       /\ setup[call'.entry] \in {"platforms", "loaded"}]_vars

\* Both instances were unloaded, the services are still registered, and an
\* invocation found no coordinator.
C26_Witness ==
    /\ setup["e1"] = "unloaded"
    /\ setup["e2"] = "unloaded"
    /\ active = <<>>
    /\ services = Services
    /\ call.state = "not_found"

\* C28: a coordinator leaves the stored ones exactly in an unload whose
\* platforms unloaded; an instance whose unload failed stays loaded with its
\* coordinator stored; and a write call is issued only through a stored
\* coordinator that has the vehicle, so that a vehicle known only to an
\* unloaded instance gets no call.
C28_UnloadPopsIffPlatformsUnloaded ==
    [][/\ \A e \in Entries :
            /\ ((\E i \in 1..Len(active) : active[i] = e)
                  /\ ~(\E i \in 1..Len(active') : active'[i] = e))
                 <=> (setup[e] = "loaded" /\ setup'[e] = "unloaded")
            /\ setup'[e] = "loaded" => \E i \in 1..Len(active') : active'[i] = e
            /\ setup'[e] = "unloaded" => ~(\E i \in 1..Len(active') : active'[i] = e)
       /\ (call.state \notin {"writing", "awaiting"} /\ call'.state = "writing")
            => /\ setup[call'.entry] # "unloaded"
               /\ \E i \in 1..Len(active) : active[i] = call'.entry
               /\ call'.vehicle_id \in DOMAIN data[call'.entry]]_vars

\* The first instance, the only one with vehicle 1, was unloaded; the second
\* is loaded; an invocation found no coordinator.
C28_Witness ==
    /\ setup["e1"] = "unloaded"
    /\ 1 \in DOMAIN data["e1"]
    /\ setup["e2"] = "loaded"
    /\ active = <<"e2">>
    /\ DOMAIN data["e2"] = {2}
    /\ call.state = "not_found"

\* -------------------------------------------------------- config_flow.py
\* LubeLoggerApiClient.test_connection, r being what get_vehicles() gives:
\* True, False for every classified client error, or the exception that is
\* not one.
TestConnection(r) ==
    IF r.kind = "ok" THEN Ok(TRUE)
    ELSE IF IsInstance(r.exc, "LubeLoggerApiError") THEN Ok(FALSE)
    ELSE Raise(r.exc)

\* The try statement of async_step_user and async_step_reauth_confirm, tc
\* being what test_connection gives: "" when the step goes on to create or
\* update the entry, else errors["base"].
FlowErrors(tc) ==
    IF tc.kind = "ok" THEN (IF tc.value THEN "" ELSE "cannot_connect")
    ELSE IF IsInstance(tc.exc, "LubeLoggerAuthError") THEN "invalid_auth"
    ELSE IF IsInstance(tc.exc, "LubeLoggerConnectionError") THEN "cannot_connect"
    ELSE "unknown"

\* What a step returns: the form with its error, or the result that stores
\* the credentials.
FlowResult(step, tc) ==
    IF FlowErrors(tc) # "" THEN [type |-> "form", errors |-> FlowErrors(tc)]
    ELSE IF step = "user" THEN [type |-> "create_entry", errors |-> ""]
    ELSE [type |-> "abort", errors |-> ""]

\* A step of the flow for the entry e with the submitted credentials; t is
\* what the HTTP session does with the validating get_vehicles() request.
FlowStep(step, e, user_input, t) ==
    LET result == FlowResult(step, TestConnection(Request(t)))
    IN  /\ flow' = [step |-> step, entry |-> e, user_input |-> user_input,
                    transport |-> t, result |-> result,
                    entries |-> IF result.type = "form" THEN flow.entries
                                ELSE [flow.entries EXCEPT ![e] =
                                        [exists |-> TRUE,
                                         username |-> user_input.username,
                                         password |-> user_input.password]]]
        /\ UNCHANGED <<setup, active, data, last_exception, cycles, devices,
                       sensors, services, call, req, registrations, options,
                       proj, run, client>>

\* async_step_user with user input, for a URL that is not configured yet.
StepUser(e, user_input, t) ==
    /\ ~flow.entries[e].exists
    /\ FlowStep("user", e, user_input, t)

\* async_step_reauth_confirm with user input, for an existing entry.
StepReauthConfirm(e, user_input, t) ==
    /\ flow.entries[e].exists
    /\ FlowStep("reauth_confirm", e, user_input, t)

FlowInputs ==
    { [username |-> <<97>>, password |-> <<97>>],
      [username |-> <<97>>, password |-> <<58>>] }

NextFlow ==
    \/ \E e \in Entries, i \in FlowInputs, t \in Transports(Listings) :
          StepUser(e, i, t)
    \/ \E e \in Entries, i \in FlowInputs, t \in Transports(Listings) :
          StepReauthConfirm(e, i, t)

SpecFlow == Init /\ [][NextFlow]_vars

\* C27: in the user step and in the re-authentication step, a validating
\* request answered with 401 or 403 shows the form again with the error
\* invalid_auth, a request that fails on the connection shows it with
\* cannot_connect, and in both cases no entry is created or updated.
C27_InvalidAuthReported ==
    [][flow' # flow
         => /\ (flow'.transport.kind = "http"
                  /\ flow'.transport.status \in {401, 403})
                 => /\ flow'.result = [type |-> "form", errors |-> "invalid_auth"]
                    /\ flow'.entries = flow.entries
            /\ (flow'.transport.kind = "raise"
                  /\ IsInstance(flow'.transport.exc, "ClientError"))
                 => /\ flow'.result = [type |-> "form", errors |-> "cannot_connect"]
                    /\ flow'.entries = flow.entries]_vars

\* ------------------------------------------------------ the add_reminder call
\* SERVICE_ADD_REMINDER_SCHEMA applied to the data of a service call that has
\* the required keys: the defaults of metric, notes and tags are filled in.
ReminderSchema(call_data) ==
    call_data
      @@ ("metric" :> Str("Both")) @@ ("notes" :> Str("")) @@ ("tags" :> Str(""))

\* The keyword arguments handle_add_reminder passes to client.add_reminder.
HandleAddReminderArgs(call_data) ==
    [vehicle_id |-> call_data["vehicle_id"],
     description |-> call_data["description"],
     due_date |-> Get(call_data, "due_date", None),
     due_odometer |-> Get(call_data, "due_odometer", None),
     metric |-> Get(call_data, "metric", Str("Both")),
     notes |-> Get(call_data, "notes", Str("")),
     tags |-> Get(call_data, "tags", Str(""))]

\* AddReminderBody with "if due_odometer:" for "if due_odometer is not None".
AddReminderBodyTruthyOdometer(args) ==
    (IF Truthy(args.due_odometer) THEN ("dueOdometer" :> args.due_odometer)
     ELSE EmptyDict)
    @@ (IF Truthy(args.due_date) THEN ("dueDate" :> args.due_date) ELSE EmptyDict)
    @@ [vehicleId |-> args.vehicle_id, description |-> args.description,
        metric |-> args.metric, notes |-> args.notes, tags |-> args.tags]

\* The dict add_reminder hands to _request as json_data.
AddReminderBody(args) ==
    (IF args.due_odometer # None THEN ("dueOdometer" :> args.due_odometer)
     ELSE EmptyDict)
    @@ (IF Truthy(args.due_date) THEN ("dueDate" :> args.due_date) ELSE EmptyDict)
    @@ [vehicleId |-> args.vehicle_id, description |-> args.description,
        metric |-> args.metric, notes |-> args.notes, tags |-> args.tags]

\* handle_add_reminder's call of client.add_reminder for the data of a
\* service call, with the outcome t of the HTTP session.
AddReminder(call_data, t) ==
    /\ req' = [op |-> SERVICE_ADD_REMINDER,
               vehicle_id |-> call_data["vehicle_id"].py_num,
               transport |-> t, result |-> Request(t),
               headers |-> GetHeaders(client), call_data |-> call_data,
               json_data |-> AddReminderBody(
                                HandleAddReminderArgs(ReminderSchema(call_data)))]
    /\ UNCHANGED <<setup, active, data, last_exception, cycles,
                   devices, sensors, services, call,
                   registrations, options, proj, run, client, flow>>

\* The data of a service call: the required keys and any of the optional
\* ones, the due date also empty and the due odometer also 0.
OptionalReminderData ==
    { ("due_date" :> Str("")), ("due_date" :> Str("2025-01-01")),
      ("due_odometer" :> Num(0)), ("due_odometer" :> Num(5)),
      ("metric" :> Str("Date")), ("notes" :> Str("n")), ("tags" :> Str("t")) }

RECURSIVE Union(_)
Union(fs) ==
    IF fs = {} THEN EmptyDict
    ELSE LET f == CHOOSE x \in fs : TRUE IN f @@ Union(fs \ {f})

ReminderCallData ==
    { Union(opt) @@ [vehicle_id |-> Num(v), description |-> Str("Oil")] :
        v \in VehicleIds,
        opt \in { o \in SUBSET OptionalReminderData :
                    \A f, g \in o : f # g => DOMAIN f # DOMAIN g } }

NextReminder ==
    \E call_data \in ReminderCallData :
        \E t \in { Http(200, "json", <<>>), Http(500, "json", <<>>) } :
            AddReminder(call_data, t)

SpecReminder == Init /\ [][NextReminder]_vars

\* C29: the body of the add-reminder request has vehicleId, description,
\* metric, notes and tags, with the values of the call (the defaults where
\* the call has none); it has dueDate exactly when the call has a non-empty
\* due date and dueOdometer exactly when the call has a due odometer, 0
\* included; and it has no other key.
C29_ReminderBody ==
    req.op = SERVICE_ADD_REMINDER =>
        LET body == req.json_data
            given == req.call_data
        IN  /\ {"vehicleId", "description", "metric", "notes", "tags"}
                  \subseteq DOMAIN body
            /\ DOMAIN body \subseteq
                  {"vehicleId", "description", "metric", "notes", "tags",
                   "dueDate", "dueOdometer"}
            /\ body["vehicleId"] = given["vehicle_id"]
            /\ body["description"] = given["description"]
            /\ body["metric"] = IF "metric" \in DOMAIN given THEN given["metric"]
                                ELSE Str("Both")
            /\ body["notes"] = IF "notes" \in DOMAIN given THEN given["notes"]
                               ELSE Str("")
            /\ body["tags"] = IF "tags" \in DOMAIN given THEN given["tags"]
                              ELSE Str("")
            /\ "dueDate" \in DOMAIN body
                 <=> ("due_date" \in DOMAIN given /\ given["due_date"] # Str(""))
            /\ "dueDate" \in DOMAIN body => body["dueDate"] = given["due_date"]
            /\ "dueOdometer" \in DOMAIN body <=> "due_odometer" \in DOMAIN given
            /\ "dueOdometer" \in DOMAIN body
                 => body["dueOdometer"] = given["due_odometer"]

\* A call with an empty due date and the due odometer 0: the body has
\* dueOdometer 0 and no dueDate.
C29_Witness ==
    /\ req.op = SERVICE_ADD_REMINDER
    /\ {"due_date", "due_odometer"} \subseteq DOMAIN req.call_data
    /\ req.call_data["due_date"] = Str("")
    /\ req.call_data["due_odometer"] = Num(0)
    /\ "dueDate" \notin DOMAIN req.json_data
    /\ req.json_data["dueOdometer"] = Num(0)

====
